---- MODULE Spec2Model ----
(***************************************************************************)
(* Model of MyStock: the watch-list filter (app/views.py) and the /update  *)
(* route with its background task (app/routes.py).                         *)
(*                                                                         *)
(* Column names of the market DataFrame are written in ASCII:              *)
(*   close = 收盤, open = 開盤, high = 最高, low = 最低,                   *)
(*   industry = 產業別, name = 名稱, foreign = 外資買賣超,                 *)
(*   rev_mom = (月)營收月增率(%), rev_yoy = (月)營收年增率(%),             *)
(*   rev_cum = (月)累積營收年增率(%).                                      *)
(* Ratios (0.995, 1.003, ...) are kept exact as per-mille integers and     *)
(* every comparison "a > ratio * b" is evaluated as 1000*a > ratio*b.      *)
(***************************************************************************)
EXTENDS Integers, Sequences, FiniteSets, TLC

\* ---------------------------------------------------------------------------
\* Bounds of the model
\* ---------------------------------------------------------------------------
NumStocks == 2      \* instruments of the datasets the filter is tried on
MaxCalls == 2       \* calls of _update_watch_list on one input
MaxReq == 2         \* GET /update requests (handler threads)

\* ---------------------------------------------------------------------------
\* Module-level tunables of app/views.py (ratios in per-mille)
\* ---------------------------------------------------------------------------
STRAT1_MIN_CLOSE_PRICE == 10
STRAT1_RED_K_RATIO == 995
STRAT1_BREAK_HIGH_RATIO == 1000
STRAT1_K9_DIFF_THRESHOLD == 50
STRAT1_J9_UPPER_LIMIT == 80
STRAT1_TWO_DAY_GAIN_RATIO == 1005
STRAT1_LIMIT_UP_RATIO == 1020
STRAT1_UPPER_SHADOW_THRESHOLD == 60
STRAT1_SKYROCKET_N_DAYS == 5
STRAT1_SKYROCKET_K_CHANGE == 120
STRAT1_VOLUME_THRESHOLD == 400
STRAT1_MEAN5_VOLUME_THRESHOLD == 800
STRAT1_MEAN20_VOLUME_THRESHOLD == 800
STRAT3_MIN_CLOSE_PRICE == 20
STRAT3_ONE_DAY_GAIN_RATIO == 1003
STRAT3_K9_LOWER_LIMIT == 15
STRAT3_VOLUME_THRESHOLD == 200

VARIABLES
    is_updating,    \* app.config["is_updating"]
    req,            \* the /update handler threads
    task,           \* the background tasks running update_and_broadcast
    tie_order,      \* order in which the build's quicksort leaves equal keys
    in_df,          \* dataset handed to _update_watch_list (filter specs)
    in_masks,       \* what the strategy function returns for in_df
    out             \* results of the calls of _update_watch_list so far

vars == <<is_updating, req, task, tie_order, in_df, in_masks, out>>

\* ---------------------------------------------------------------------------
\* Sequences
\* ---------------------------------------------------------------------------
Range(s) == {s[i] : i \in DOMAIN s}

Perms(S) == {s \in [1..Cardinality(S) -> S] : Range(s) = S}

PosIn(s, x) == CHOOSE i \in DOMAIN s : s[i] = x

\* the subsequence of s whose elements satisfy the membership in Keep
RECURSIVE SelectIn(_, _)
SelectIn(s, Keep) ==
    IF s = <<>> THEN <<>>
    ELSE IF s[1] \in Keep THEN <<s[1]>> \o SelectIn(Tail(s), Keep)
         ELSE SelectIn(Tail(s), Keep)

\* the elements of the set S of integers in ascending order
RECURSIVE SortedSeq(_)
SortedSeq(S) ==
    IF S = {} THEN <<>>
    ELSE LET m == CHOOSE x \in S : \A y \in S : x <= y
         IN <<m>> \o SortedSeq(S \ {m})

\* ---------------------------------------------------------------------------
\* The market DataFrame: index (instrument ids in row order), cols (the
\* columns present) and row (the cells).  A condition mask is a function from
\* some of the ids to BOOLEAN, like a boolean Series indexed by instrument id.
\* ---------------------------------------------------------------------------
Ids(df) == Range(df.index)

\* Series.get(stock_id, default)
SeriesGet(cond_mask, stock_id, default) ==
    IF stock_id \in DOMAIN cond_mask THEN cond_mask[stock_id] ELSE default

\* the technical conditions concatenated before the fundamental ones
combined_mask_technical_first(m) == m.technical \o m.fundamental \o m.chip

\* the chip conditions left out of the concatenation
combined_mask_without_chip(m) == m.fundamental \o m.technical

\* combined_mask = fundamental_mask + technical_mask + chip_mask
combined_mask(m) == m.fundamental \o m.technical \o m.chip

\* utils.df_mask_helper: the rows for which every mask of the list is true
df_mask_helper(df, mask_list) ==
    SelectIn(df.index,
             {id \in Ids(df) : \A k \in DOMAIN mask_list :
                  SeriesGet(mask_list[k], id, FALSE)})

\* row a comes before row b in sort_values(by=["產業別"], ascending=False)
\* with the default kind="quicksort": descending keys, equal keys in the
\* order the sort algorithm of the build leaves them in
SortsBefore(df, a, b) ==
    \/ df.row[a]["industry"] > df.row[b]["industry"]
    \/ /\ df.row[a]["industry"] = df.row[b]["industry"]
       /\ PosIn(tie_order, a) < PosIn(tie_order, b)

sort_values(df, index) ==
    CHOOSE s \in Perms(Range(index)) :
        \A i, j \in DOMAIN s : i < j => SortsBefore(df, s[i], s[j])

\* condition_names = [f"條件{i+1}" for i in range(len(combined_mask))]
condition_names(cm) == [i \in 1..Len(cm) |-> i]

\* the audit with cond_mask.get(stock_id, False): no entry counts as failed
failed_conditions_default_false(cm, stock_id) ==
    SelectSeq([i \in 1..Len(cm) |-> i],
              LAMBDA i : ~SeriesGet(cm[i], stock_id, FALSE))

\* the inner loop of the audit: the names of the conditions whose mask holds
\* False for stock_id
failed_conditions(cm, stock_id) ==
    SelectSeq(condition_names(cm),
              LAMBDA i : ~SeriesGet(cm[i], stock_id, TRUE))

\* the audit loop running over every row of the dataset instead of
\* market_data_df.index.difference(watch_list_df.index)
filter_and_audit_logging_every_row(df, m) ==
    CHOOSE res \in UNION UNION
        {{{[raised |-> FALSE,
            watch_list |-> watch_list,
            log |-> [i \in 1..Len(excluded) |->
                        [stock_id |-> excluded[i],
                         failed |-> failed_conditions(cm, excluded[i])]]] :
            excluded \in {SortedSeq(Ids(df))}} :
            watch_list \in {sort_values(df, df_mask_helper(df, cm))}} :
            cm \in {combined_mask(m)}} : TRUE

\* _update_watch_list after the strategy function has returned its three
\* lists (other_funcs is None in every call of the program): the returned
\* watch list and the exclusion lines written to the log.  cm, watch_list and
\* excluded are the locals of the function, each computed once.
filter_and_audit(df, m) ==
    CHOOSE res \in UNION UNION
        {{{[raised |-> FALSE,
            watch_list |-> watch_list,
            log |-> [i \in 1..Len(excluded) |->
                        [stock_id |-> excluded[i],
                         failed |-> failed_conditions(cm, excluded[i])]]] :
            excluded \in {SortedSeq(Ids(df) \ Range(watch_list))}} :
            watch_list \in {sort_values(df, df_mask_helper(df, cm))}} :
            cm \in {combined_mask(m)}} : TRUE

\* ---------------------------------------------------------------------------
\* Indicator predicates of strategies/technical.py and strategies/chip.py.
\* A series column holds the observations oldest first; offset 0 is the
\* latest one.  Each predicate yields one boolean per row of the DataFrame.
\* ---------------------------------------------------------------------------
HasObs(df, id, col, o) == Len(df.row[id][col]) - o >= 1

Obs(df, id, col, o) == df.row[id][col][Len(df.row[id][col]) - o]

Compare(op, a, b) == IF op = "more" THEN a > b ELSE a < b

MaskNot(mask) == [id \in DOMAIN mask |-> ~mask[id]]

technical_indicator_constant_check_df(df, col, op, threshold, days) ==
    [id \in Ids(df) |->
        \A o \in 0..(days - 1) :
            /\ HasObs(df, id, col, o)
            /\ Compare(op, Obs(df, id, col, o), threshold)]

technical_indicator_greater_or_less_one_day_check_df(df, a, b, op, ratio, days) ==
    [id \in Ids(df) |->
        \A o \in 0..(days - 1) :
            /\ HasObs(df, id, a, o) /\ HasObs(df, id, b, o)
            /\ Compare(op, 1000 * Obs(df, id, a, o), ratio * Obs(df, id, b, o))]

technical_indicator_greater_or_less_two_day_check_df(df, a, b, op, ratio, days) ==
    [id \in Ids(df) |->
        \A o \in 0..(days - 1) :
            /\ HasObs(df, id, a, o) /\ HasObs(df, id, b, o + 1)
            /\ Compare(op, 1000 * Obs(df, id, a, o),
                       ratio * Obs(df, id, b, o + 1))]

technical_indicator_difference_one_day_check_df(df, a, b, threshold, days) ==
    [id \in Ids(df) |->
        \A o \in 0..(days - 1) :
            /\ HasObs(df, id, a, o) /\ HasObs(df, id, b, o)
            /\ LET d == Obs(df, id, a, o) - Obs(df, id, b, o)
               IN (IF d < 0 THEN -d ELSE d) < threshold]

technical_indicator_difference_two_day_check_df(df, a, b, op, factor, norm, days) ==
    [id \in Ids(df) |->
        \A o \in 0..(days - 1) :
            /\ HasObs(df, id, a, o) /\ HasObs(df, id, b, o)
            /\ HasObs(df, id, norm, o + 1)
            /\ Compare(op, 1000 * (Obs(df, id, a, o) - Obs(df, id, b, o)),
                       factor * Obs(df, id, norm, o + 1))]

volume_greater_check_df(df, shares_threshold, days) ==
    [id \in Ids(df) |->
        \A o \in 0..(days - 1) :
            /\ HasObs(df, id, "volume", o)
            /\ Obs(df, id, "volume", o) > shares_threshold]

skyrocket_check_df(df, n_days, k_change, consecutive_red_no_upper_shadow_days) ==
    [id \in Ids(df) |->
        /\ \E o \in 0..(n_days - 2) :
              /\ HasObs(df, id, "k9", o + 1)
              /\ 1000 * (Obs(df, id, "k9", o) - Obs(df, id, "k9", o + 1))
                     >= k_change * Obs(df, id, "k9", o + 1)
        /\ \A o \in 1..consecutive_red_no_upper_shadow_days :
              /\ HasObs(df, id, "close", o) /\ HasObs(df, id, "open", o)
              /\ HasObs(df, id, "high", o)
              /\ Obs(df, id, "close", o) > Obs(df, id, "open", o)
              /\ Obs(df, id, "high", o) = Obs(df, id, "close", o)]

foreign_buy_positive_check_df(df, threshold) ==
    [id \in Ids(df) |-> df.row[id]["foreign"] >= threshold]

\* ---------------------------------------------------------------------------
\* The strategies.  A strategy function returns its three condition lists, or
\* raises (KeyError) when a column it reads is not in the DataFrame.
\* ---------------------------------------------------------------------------
StrategyRaised ==
    [raised |-> TRUE, fundamental |-> <<>>, technical |-> <<>>, chip |-> <<>>]

strategy_1_columns ==
    {"rev_mom", "rev_yoy", "rev_cum", "close", "open", "high", "mean5",
     "mean20", "mean60", "k9", "d9", "j9", "volume", "mean_5_volume",
     "mean_20_volume", "foreign"}

strategy_1_fundamental_mask(df) ==
    << [id \in Ids(df) |-> \/ df.row[id]["rev_mom"] > 0
                           \/ df.row[id]["rev_yoy"] > 0
                           \/ df.row[id]["rev_cum"] > 0] >>

strategy_1_technical_mask(df) ==
     <<
        technical_indicator_constant_check_df(
            df, "close", "more", STRAT1_MIN_CLOSE_PRICE, 1),
        technical_indicator_greater_or_less_one_day_check_df(
            df, "close", "mean5", "more", 1000, 1),
        technical_indicator_greater_or_less_one_day_check_df(
            df, "mean5", "mean20", "more", 1000, 1),
        technical_indicator_greater_or_less_one_day_check_df(
            df, "mean20", "mean60", "more", 1000, 1),
        technical_indicator_greater_or_less_one_day_check_df(
            df, "close", "open", "more", STRAT1_RED_K_RATIO, 1),
        technical_indicator_greater_or_less_two_day_check_df(
            df, "close", "high", "more", STRAT1_BREAK_HIGH_RATIO, 1),
        technical_indicator_greater_or_less_two_day_check_df(
            df, "k9", "k9", "more", 1000, 1),
        technical_indicator_constant_check_df(df, "d9", "less", 90, 1),
        technical_indicator_difference_one_day_check_df(
            df, "k9", "d9", STRAT1_K9_DIFF_THRESHOLD, 1),
        technical_indicator_constant_check_df(
            df, "j9", "less", STRAT1_J9_UPPER_LIMIT, 1),
        technical_indicator_greater_or_less_two_day_check_df(
            df, "close", "close", "more", STRAT1_TWO_DAY_GAIN_RATIO, 1),
        MaskNot(technical_indicator_greater_or_less_two_day_check_df(
            df, "close", "close", "more", STRAT1_LIMIT_UP_RATIO, 2)),
        technical_indicator_difference_two_day_check_df(
            df, "high", "close", "less", STRAT1_UPPER_SHADOW_THRESHOLD,
            "close", 1),
        skyrocket_check_df(
            df, STRAT1_SKYROCKET_N_DAYS, STRAT1_SKYROCKET_K_CHANGE, 2) >>

\* the chip conditions with the 5-day column in the 20-day average check
strategy_1_chip_mask_mean5_twice(df) ==
     <<
        volume_greater_check_df(df, STRAT1_VOLUME_THRESHOLD, 1),
        technical_indicator_greater_or_less_two_day_check_df(
            df, "volume", "volume", "more", 1000, 1),
        technical_indicator_greater_or_less_one_day_check_df(
            df, "volume", "mean_5_volume", "more", 1000, 1),
        technical_indicator_constant_check_df(
            df, "mean_5_volume", "more", STRAT1_MEAN5_VOLUME_THRESHOLD, 1),
        technical_indicator_constant_check_df(
            df, "mean_5_volume", "more", STRAT1_MEAN20_VOLUME_THRESHOLD, 1),
        technical_indicator_greater_or_less_two_day_check_df(
            df, "mean_5_volume", "mean_5_volume", "more", 1000, 1),
        foreign_buy_positive_check_df(df, 0) >>

strategy_1_chip_mask(df) ==
     <<
        volume_greater_check_df(df, STRAT1_VOLUME_THRESHOLD, 1),
        technical_indicator_greater_or_less_two_day_check_df(
            df, "volume", "volume", "more", 1000, 1),
        technical_indicator_greater_or_less_one_day_check_df(
            df, "volume", "mean_5_volume", "more", 1000, 1),
        technical_indicator_constant_check_df(
            df, "mean_5_volume", "more", STRAT1_MEAN5_VOLUME_THRESHOLD, 1),
        technical_indicator_constant_check_df(
            df, "mean_20_volume", "more", STRAT1_MEAN20_VOLUME_THRESHOLD, 1),
        technical_indicator_greater_or_less_two_day_check_df(
            df, "mean_5_volume", "mean_5_volume", "more", 1000, 1),
        foreign_buy_positive_check_df(df, 0) >>

get_strategy_1(df) ==
    IF ~(strategy_1_columns \subseteq df.cols) THEN StrategyRaised
    ELSE [raised |-> FALSE,
          fundamental |-> strategy_1_fundamental_mask(df),
          technical |-> strategy_1_technical_mask(df),
          chip |-> strategy_1_chip_mask(df)]

strategy_3_columns ==
    {"close", "open", "low", "mean20", "mean60", "k9", "volume", "foreign"}

strategy_3_technical_mask(df) ==
     <<
        technical_indicator_constant_check_df(
            df, "close", "more", STRAT3_MIN_CLOSE_PRICE, 1),
        technical_indicator_greater_or_less_two_day_check_df(
            df, "close", "close", "more", STRAT3_ONE_DAY_GAIN_RATIO, 1),
        technical_indicator_greater_or_less_one_day_check_df(
            df, "close", "open", "more", 1000, 1),
        technical_indicator_greater_or_less_one_day_check_df(
            df, "close", "mean60", "more", 1000, 1),
        technical_indicator_greater_or_less_two_day_check_df(
            df, "mean20", "mean20", "more", 1000, 1),
        technical_indicator_greater_or_less_two_day_check_df(
            df, "mean60", "mean60", "more", 1000, 1),
        MaskNot(technical_indicator_greater_or_less_one_day_check_df(
            df, "low", "mean20", "more", 1000, 5)),
        MaskNot(technical_indicator_greater_or_less_two_day_check_df(
            df, "close", "close", "more", 1000, 2)),
        technical_indicator_greater_or_less_two_day_check_df(
            df, "k9", "k9", "more", 1000, 1),
        technical_indicator_constant_check_df(
            df, "k9", "more", STRAT3_K9_LOWER_LIMIT, 1),
        skyrocket_check_df(
            df, STRAT1_SKYROCKET_N_DAYS, STRAT1_SKYROCKET_K_CHANGE, 0) >>

strategy_3_chip_mask(df) ==
     <<
        volume_greater_check_df(df, STRAT3_VOLUME_THRESHOLD, 1),
        technical_indicator_greater_or_less_two_day_check_df(
            df, "volume", "volume", "less", 1000, 1),
        foreign_buy_positive_check_df(df, 0) >>

get_strategy_3(df) ==
    IF ~(strategy_3_columns \subseteq df.cols) THEN StrategyRaised
    ELSE [raised |-> FALSE,
          fundamental |-> << >>,
          technical |-> strategy_3_technical_mask(df),
          chip |-> strategy_3_chip_mask(df)]

\* the strategy of the filter specifications: it returns the lists in_masks
masks_strategy(df) ==
    [raised |-> FALSE, fundamental |-> in_masks.fundamental,
     technical |-> in_masks.technical, chip |-> in_masks.chip]

strategy_func(name, df) ==
    CASE name = "strategy_1" -> get_strategy_1(df)
      [] name = "strategy_3" -> get_strategy_3(df)
      [] OTHER -> masks_strategy(df)

\* _update_watch_list keeping state between calls: the exclusion lines of an
\* input are written on the first call only
update_watch_list_logging_once(df, name) ==
    LET m == strategy_func(name, df)
    IN IF m.raised
       THEN [raised |-> TRUE, watch_list |-> <<>>, log |-> <<>>]
       ELSE IF out = <<>> THEN filter_and_audit(df, m)
            ELSE [filter_and_audit(df, m) EXCEPT !.log = <<>>]

\* _update_watch_list(market_data_df, strategy_func, strategy_name): an
\* exception of the strategy function leaves through it
update_watch_list(df, name) ==
    CHOOSE res \in {IF m.raised
                    THEN [raised |-> TRUE, watch_list |-> <<>>, log |-> <<>>]
                    ELSE filter_and_audit(df, m) :
                    m \in {strategy_func(name, df)}} : TRUE

\* ---------------------------------------------------------------------------
\* Instrument rows the strategies are tried on
\* ---------------------------------------------------------------------------
AllColumns == strategy_1_columns \cup strategy_3_columns \cup {"industry"}

\* passes every condition of strategy 1
RowA ==
    [industry |-> 1, rev_mom |-> 5, rev_yoy |-> 5, rev_cum |-> 5,
     foreign |-> 100,
     close  |-> <<100, 100, 101, 102, 104>>,
     open   |-> << 99,  99, 100, 101, 103>>,
     high   |-> <<100, 100, 101, 102, 105>>,
     low    |-> << 98,  98,  99, 100, 102>>,
     mean5  |-> << 99,  99, 100, 100, 101>>,
     mean20 |-> << 93,  93,  94,  94,  95>>,
     mean60 |-> << 88,  88,  89,  89,  90>>,
     k9     |-> << 40,  40,  42,  50,  60>>,
     d9     |-> << 40,  40,  41,  45,  55>>,
     j9     |-> << 40,  40,  44,  60,  70>>,
     volume |-> <<900, 900, 900, 900, 1000>>,
     mean_5_volume  |-> <<880, 880, 880, 890, 920>>,
     mean_20_volume |-> <<850, 850, 850, 850, 850>>]

\* passes every condition of strategy 3
RowC ==
    [industry |-> 2, rev_mom |-> 5, rev_yoy |-> 5, rev_cum |-> 5,
     foreign |-> 100,
     close  |-> <<102, 103, 101, 100, 104>>,
     open   |-> <<102, 102, 102, 101, 101>>,
     high   |-> <<103, 104, 102, 101, 105>>,
     low    |-> <<100, 101,  99,  98, 100>>,
     mean5  |-> <<101, 101, 101, 101, 102>>,
     mean20 |-> << 98,  98,  99,  99, 100>>,
     mean60 |-> << 88,  88,  89,  89,  90>>,
     k9     |-> << 30,  30,  28,  26,  40>>,
     d9     |-> << 30,  30,  29,  28,  32>>,
     j9     |-> << 30,  30,  26,  22,  56>>,
     volume |-> <<900, 900, 900, 1000, 900>>,
     mean_5_volume  |-> <<880, 880, 880, 900, 920>>,
     mean_20_volume |-> <<850, 850, 850, 850, 850>>]

\* a DataFrame of the given rows, ids 1, 2, ... in index order
Frame(rows, cols) ==
    [index |-> [i \in 1..Len(rows) |-> i], cols |-> cols,
     row |-> [i \in 1..Len(rows) |-> rows[i]]]

\* s with its k latest observations replaced by those of the sequence late
WithLatest(s, late) ==
    [i \in 1..Len(s) |->
        IF i > Len(s) - Len(late) THEN late[i - (Len(s) - Len(late))]
        ELSE s[i]]

\* ---------------------------------------------------------------------------
\* update_and_broadcast and its collaborators
\* ---------------------------------------------------------------------------
TSMC == 1    \* the row "2330" that _update_market_data logs as sanity check

NoFrame == Frame(<<>>, {})

\* what the crawlers deliver for a date: the number of rows of the
\* concatenated TWSE and TPEX tables and the table merged with the other data
CrawlResults ==
    {[concat_rows |-> 0, merged |-> NoFrame],
     [concat_rows |-> 2, merged |-> Frame(<<>>, AllColumns)],
     [concat_rows |-> 2, merged |-> Frame(<<RowA, RowC>>, AllColumns)],
     [concat_rows |-> 2,
      merged |-> Frame(<<[RowA EXCEPT !.foreign = -1]>>, AllColumns)],
     [concat_rows |-> 2,
      merged |-> Frame(<<RowA, RowC>>, AllColumns \ {"low"})],
     [concat_rows |-> 2,
      merged |-> Frame(<<RowA, RowC>>, AllColumns \ {"rev_mom"})]}

\* _update_market_data: the empty table is returned as it is, otherwise the
\* merged table, whose row "2330" is read (KeyError when it is not there)
update_market_data(crawl) ==
    IF crawl.concat_rows = 0
    THEN [raised |-> FALSE, df |-> crawl.merged]
    ELSE IF TSMC \notin Ids(crawl.merged)
         THEN [raised |-> TRUE, df |-> NoFrame]
         ELSE [raised |-> FALSE, df |-> crawl.merged]

EconomicEvents == {<<>>, <<"event">>}

\* the text _broadcast_watch_list assembles: one section per watch list
\* (numbered by position; "none" for an empty list, else its rows), the
\* events and the date
broadcast_text(target_date, watch_list_dfs, economic_events) ==
    [sections |-> [i \in 1..Len(watch_list_dfs) |->
                      IF watch_list_dfs[i] = <<>>
                      THEN [strategy |-> i, none |-> TRUE, rows |-> <<>>]
                      ELSE [strategy |-> i, none |-> FALSE,
                            rows |-> watch_list_dfs[i]]],
     events |-> economic_events,
     date |-> target_date]

\* headers: what the client sent, kept for the requests the handler rejects
\* (an accepted request sent a valid token and the date in target_date)
NoHeaders == [token |-> "unset", date |-> "unset"]

NoRequest ==
    [pc |-> "idle", token |-> "unread", target_date |-> "unset",
     need_broadcast |-> "unset", status |-> 0, body |-> "",
     headers |-> NoHeaders]

NoTask ==
    [pc |-> "none", target_date |-> "unset", need_broadcast |-> FALSE,
     df |-> NoFrame, shape0 |-> -1, evaluated |-> <<>>,
     watch_list_dfs |-> <<>>,
     outcome |-> "none", sent |-> <<>>]

Requests == 1..MaxReq

Running(r) == task[r].pc \notin {"none", "ended"}

Init ==
    /\ is_updating = FALSE
    /\ req = [r \in Requests |-> NoRequest]
    /\ task = [r \in Requests |-> NoTask]
    /\ tie_order = [i \in 1..NumStocks |-> i]
    /\ in_df = NoFrame
    /\ in_masks = [fundamental |-> <<>>, technical |-> <<>>, chip |-> <<>>]
    /\ out = <<>>

Respond(r, fields, status, body) ==
    req' = [req EXCEPT ![r] =
                [fields EXCEPT !.pc = "responded", !.status = status,
                               !.body = body]]

\* GET /update parsing Target-Date before it validates the token
UpdateCheck_date_before_token(r) ==
    /\ req[r].pc = "idle"
    /\ (IF r = 1 THEN TRUE ELSE req[r - 1].pc # "idle")
    /\ \E token \in {"missing", "wrong", "valid"},
          date_str \in {"absent", "malformed", "weekday", "weekend"},
          today \in {"weekday", "weekend"},
          flag \in BOOLEAN :
         LET sent == [req[r] EXCEPT !.headers =
                                      [token |-> token, date |-> date_str]]
         IN IF is_updating
            THEN Respond(r, sent, 429, "Update already in progress")
            ELSE IF date_str = "malformed"
            THEN Respond(r, sent, 400, "Invalid Target-Date format")
            ELSE IF token = "missing"
            THEN Respond(r, [sent EXCEPT !.token = token], 401,
                         "Missing API-Access-Token")
            ELSE IF token # "valid"
            THEN Respond(r, [sent EXCEPT !.token = token], 401,
                         "Invalid API-Access-Token")
            ELSE req' = [req EXCEPT ![r] =
                           [pc |-> "validated", token |-> token,
                            target_date |-> IF date_str = "absent" THEN today
                                            ELSE date_str,
                            need_broadcast |-> flag, status |-> 0, body |-> "",
                            headers |-> NoHeaders]]
    /\ UNCHANGED <<is_updating, task, tie_order, in_df, in_masks, out>>

\* GET /update up to the point where the flag is about to be set: the flag
\* is read, then the token, then the date, then the broadcast flag.  An
\* absent Target-Date header means today, which is a weekday or not.
UpdateCheck(r) ==
    /\ req[r].pc = "idle"
    /\ (IF r = 1 THEN TRUE ELSE req[r - 1].pc # "idle")
    /\ \E token \in {"missing", "wrong", "valid"},
          date_str \in {"absent", "malformed", "weekday", "weekend"},
          today \in {"weekday", "weekend"},
          flag \in BOOLEAN :
         LET sent == [req[r] EXCEPT !.headers =
                                      [token |-> token, date |-> date_str]]
         IN IF is_updating
            THEN Respond(r, sent, 429, "Update already in progress")
            ELSE IF token = "missing"
            THEN Respond(r, [sent EXCEPT !.token = token], 401,
                         "Missing API-Access-Token")
            ELSE IF token # "valid"
            THEN Respond(r, [sent EXCEPT !.token = token], 401,
                         "Invalid API-Access-Token")
            ELSE IF date_str = "malformed"
            THEN Respond(r, [sent EXCEPT !.token = token], 400,
                         "Invalid Target-Date format")
            ELSE req' = [req EXCEPT ![r] =
                           [pc |-> "validated", token |-> token,
                            target_date |-> IF date_str = "absent" THEN today
                                            ELSE date_str,
                            need_broadcast |-> flag, status |-> 0, body |-> "",
                            headers |-> NoHeaders]]
    /\ UNCHANGED <<is_updating, task, tie_order, in_df, in_masks, out>>

\* app.config["is_updating"] = True; thread.start(); return Response(200)
UpdateSpawn(r) ==
    /\ req[r].pc = "validated"
    /\ is_updating' = TRUE
    /\ task' = [task EXCEPT ![r] =
                   [NoTask EXCEPT !.pc = "start",
                                  !.target_date = req[r].target_date,
                                  !.need_broadcast = req[r].need_broadcast,
                                  !.outcome = "running"]]
    /\ Respond(r, req[r], 200, "")
    /\ UNCHANGED <<tie_order, in_df, in_masks, out>>

\* the task leaves update_and_broadcast: by return or by an exception
Leave(r, t, outcome) ==
    task' = [task EXCEPT ![r] = [t EXCEPT !.pc = "finally", !.outcome = outcome]]

\* update_and_broadcast without the test for a closed market
TaskMarketData_no_empty_test(r) ==
    /\ task[r].pc = "start"
    /\ IF task[r].target_date # "weekday"
       THEN Leave(r, task[r], "returned")
       ELSE \E crawl \in CrawlResults :
              LET md == update_market_data(crawl)
              IN IF md.raised THEN Leave(r, task[r], "raised")
                 ELSE task' = [task EXCEPT ![r].pc = "strategy_1",
                                           ![r].df = md.df,
                                           ![r].shape0 = Len(md.df.index)]
    /\ UNCHANGED <<is_updating, req, tie_order, in_df, in_masks, out>>

\* update_and_broadcast up to the market data: the weekday test, the
\* download, the test for a closed market
TaskMarketData(r) ==
    /\ task[r].pc = "start"
    /\ IF task[r].target_date # "weekday"
       THEN Leave(r, task[r], "returned")
       ELSE \E crawl \in CrawlResults :
              LET md == update_market_data(crawl)
              IN IF md.raised THEN Leave(r, task[r], "raised")
                 ELSE IF Len(md.df.index) = 0
                 THEN Leave(r, [task[r] EXCEPT !.df = md.df, !.shape0 = 0],
                            "returned")
                 ELSE task' = [task EXCEPT ![r].pc = "strategy_1",
                                           ![r].df = md.df,
                                           ![r].shape0 = Len(md.df.index)]
    /\ UNCHANGED <<is_updating, req, tie_order, in_df, in_masks, out>>

\* a call of _update_watch_list whose exception is caught and replaced by an
\* empty watch list
TaskWatchList_swallowing(r, name, next) ==
    /\ task[r].pc = name
    /\ LET res == update_watch_list(task[r].df, name)
           t == [task[r] EXCEPT !.evaluated = Append(@, name)]
       IN task' = [task EXCEPT ![r] =
                      [t EXCEPT !.pc = next,
                                !.watch_list_dfs = Append(@, res.watch_list)]]
    /\ UNCHANGED <<is_updating, req, tie_order, in_df, in_masks, out>>

\* one call of _update_watch_list from update_and_broadcast
TaskWatchList(r, name, next) ==
    /\ task[r].pc = name
    /\ \E res \in {update_watch_list(task[r].df, name)} :
       LET t == [task[r] EXCEPT !.evaluated = Append(@, name)]
       IN IF res.raised THEN Leave(r, t, "raised")
          ELSE task' = [task EXCEPT ![r] =
                          [t EXCEPT !.pc = next,
                                    !.watch_list_dfs = Append(@, res.watch_list)]]
    /\ UNCHANGED <<is_updating, req, tie_order, in_df, in_masks, out>>

TaskStrategy1(r) == TaskWatchList(r, "strategy_1", "strategy_3")

TaskStrategy3(r) == TaskWatchList(r, "strategy_3", "broadcast")

\* get_economic_events and _broadcast_watch_list: the text goes to LINE
\* only when need_broadcast is set
TaskBroadcast(r) ==
    /\ task[r].pc = "broadcast"
    /\ \E economic_events \in EconomicEvents :
         LET text == broadcast_text(task[r].target_date,
                                    task[r].watch_list_dfs, economic_events)
         IN Leave(r, [task[r] EXCEPT !.sent = IF task[r].need_broadcast
                                              THEN <<text>> ELSE <<>>],
                  "returned")
    /\ UNCHANGED <<is_updating, req, tie_order, in_df, in_masks, out>>

\* the flag reset placed after the call instead of in a finally clause: an
\* exception of update_and_broadcast skips it
TaskFinally_skipped_on_raise(r) ==
    /\ task[r].pc = "finally"
    /\ is_updating' = IF task[r].outcome = "raised" THEN is_updating ELSE FALSE
    /\ task' = [task EXCEPT ![r].pc = "ended"]
    /\ UNCHANGED <<req, tie_order, in_df, in_masks, out>>

\* finally: app.config["is_updating"] = False
TaskFinally(r) ==
    /\ task[r].pc = "finally"
    /\ is_updating' = FALSE
    /\ task' = [task EXCEPT ![r].pc = "ended"]
    /\ UNCHANGED <<req, tie_order, in_df, in_masks, out>>

Next ==
    \E r \in Requests :
        \/ UpdateCheck(r)
        \/ UpdateSpawn(r)
        \/ TaskMarketData(r)
        \/ TaskStrategy1(r)
        \/ TaskStrategy3(r)
        \/ TaskBroadcast(r)
        \/ TaskFinally(r)

Spec == Init /\ [][Next]_vars

\* a step of the background thread of request r
TaskStep(r) ==
    \/ TaskMarketData(r)
    \/ TaskStrategy1(r)
    \/ TaskStrategy3(r)
    \/ TaskBroadcast(r)
    \/ TaskFinally(r)

\* a step of some thread that has begun: a handler past its checks or a
\* background thread
ThreadStep == \E r \in Requests : UpdateSpawn(r) \/ TaskStep(r)

\* the threads keep running: while some thread that has begun can take a
\* step, a step of such a thread is eventually taken
SpecLive == Spec /\ WF_vars(ThreadStep)

\* ---------------------------------------------------------------------------
\* The filter on its own: _update_watch_list is called on a dataset and on
\* the condition lists of an arbitrary strategy (masks may lack entries)
\* ---------------------------------------------------------------------------
Industries == {1, 2}

Masks == UNION {[S -> BOOLEAN] : S \in SUBSET (1..NumStocks)}

MaskLists(lens) == UNION {[1..n -> Masks] : n \in lens}

Idle ==
    /\ is_updating = FALSE
    /\ req = [r \in Requests |-> NoRequest]
    /\ task = [r \in Requests |-> NoTask]

InitFilter ==
    /\ Idle
    /\ tie_order \in Perms(1..NumStocks)
    /\ in_df \in {Frame([i \in 1..NumStocks |-> [industry |-> ind[i]]],
                        {"industry"}) : ind \in [1..NumStocks -> Industries]}
    /\ in_masks \in [fundamental : MaskLists({0, 1}),
                     technical : MaskLists({1}),
                     chip : MaskLists({0, 1})]
    /\ out = <<>>

\* one call _update_watch_list(in_df, strategy, name); its result is kept
Call(name) ==
    /\ Len(out) < MaxCalls
    /\ out' = Append(out, [strategy |-> name,
                           res |-> update_watch_list(in_df, name)])
    /\ UNCHANGED <<is_updating, req, task, tie_order, in_df, in_masks>>

FilterCall == Call("masks")

NextFilter == FilterCall

SpecFilter == InitFilter /\ [][NextFilter]_vars

\* ---------------------------------------------------------------------------
\* The strategies on their own: strategy 1 and strategy 3 are evaluated on a
\* one-row dataset whose volume columns or closing prices vary
\* ---------------------------------------------------------------------------
Volumes == {300, 700, 900, 1000, 2000}

Closes == {100, 101, 104}

StrategyRows ==
    {[RowA EXCEPT !.volume = WithLatest(@, <<v1, v0>>),
                  !.mean_5_volume = WithLatest(@, <<m1, m0>>),
                  !.mean_20_volume = WithLatest(@, <<w0>>)] :
        v1 \in Volumes, v0 \in Volumes, m1 \in Volumes, m0 \in Volumes,
        w0 \in Volumes}
    \cup
    {[RowC EXCEPT !.close = WithLatest(@, <<c2, c1, c0>>)] :
        c2 \in Closes, c1 \in Closes, c0 \in Closes}

\* two-row datasets: a row that passes a strategy and a second row that
\* differs from it in the latest 5-day average of the close, in the revenue
\* growth or in the latest close
StrategyPairs ==
    {Frame(<<RowA, [RowA EXCEPT !.mean5 = WithLatest(@, <<m>>),
                                !.rev_mom = g, !.rev_yoy = g, !.rev_cum = g]>>,
           AllColumns) : m \in {101, 104, 110}, g \in {0, 5}}
    \cup
    {Frame(<<RowC, [RowC EXCEPT !.close = WithLatest(@, <<c>>)]>>, AllColumns) :
        c \in {15, 20, 104}}

InitStrategy ==
    /\ Idle
    /\ tie_order = [i \in 1..NumStocks |-> i]
    /\ in_df \in {Frame(<<row>>, AllColumns) : row \in StrategyRows}
                 \cup StrategyPairs
    /\ in_masks = [fundamental |-> <<>>, technical |-> <<>>, chip |-> <<>>]
    /\ out = <<>>

Strategy1Call == Call("strategy_1")

Strategy3Call == Call("strategy_3")

NextStrategy == Strategy1Call \/ Strategy3Call

SpecStrategy == InitStrategy /\ [][NextStrategy]_vars

\* ---------------------------------------------------------------------------
\* Properties of the filter (SpecFilter)
\* ---------------------------------------------------------------------------
\* the flattened condition list of the strategy under test
FlatMasks == in_masks.fundamental \o in_masks.technical \o in_masks.chip

ExplicitTrue(mask, id) == id \in DOMAIN mask /\ mask[id] = TRUE

ExplicitFalse(mask, id) == id \in DOMAIN mask /\ mask[id] = FALSE

\* in_masks with the value of its k-th flattened condition set to FALSE for id
FlipToFalse(k, id) ==
    LET nf == Len(in_masks.fundamental)
        nt == Len(in_masks.technical)
        off(mask) == [x \in DOMAIN mask \cup {id} |->
                         IF x = id THEN FALSE ELSE mask[x]]
    IN IF k <= nf
       THEN [in_masks EXCEPT !.fundamental[k] = off(@)]
       ELSE IF k <= nf + nt
       THEN [in_masks EXCEPT !.technical[k - nf] = off(@)]
       ELSE [in_masks EXCEPT !.chip[k - nf - nt] = off(@)]

FilterResults == {out[i].res : i \in {j \in DOMAIN out : out[j].strategy = "masks"}}

\* C1: an instrument is in the returned watch list iff every condition of
\* fundamental + technical + chip is true for it, and setting any single
\* condition to false for a passing instrument moves it to the excluded ones.
C1_ConjunctionLaw ==
    \A res \in FilterResults :
        /\ \A id \in Ids(in_df) :
              id \in Range(res.watch_list)
                  <=> \A k \in DOMAIN FlatMasks : ExplicitTrue(FlatMasks[k], id)
        /\ \A id \in Range(res.watch_list) : \A k \in DOMAIN FlatMasks :
              LET res2 == filter_and_audit(in_df, FlipToFalse(k, id))
              IN /\ id \notin Range(res2.watch_list)
                 /\ \E j \in DOMAIN res2.log : res2.log[j].stock_id = id

\* a call in which one instrument passed conditions of all three categories
\* and another one was excluded
C1_Witness ==
    \E res \in FilterResults :
        /\ res.watch_list # <<>> /\ res.log # <<>>
        /\ in_masks.fundamental # <<>> /\ in_masks.chip # <<>>

\* C2: for every instrument that is not in the watch list the logged list of
\* failed conditions holds exactly the labels of the conditions whose mask is
\* explicitly False for its id, in label order; a mask without an entry for
\* the id contributes no label.
C2_AuditIsExplicitFalse ==
    \A res \in FilterResults :
        \A id \in Ids(in_df) \ Range(res.watch_list) :
            /\ Cardinality({j \in DOMAIN res.log : res.log[j].stock_id = id}) = 1
            /\ \A j \in DOMAIN res.log :
                  res.log[j].stock_id = id =>
                    LET failed == res.log[j].failed
                    IN /\ Range(failed) =
                            {k \in DOMAIN FlatMasks : ExplicitFalse(FlatMasks[k], id)}
                       /\ \A p, q \in DOMAIN failed : p < q => failed[p] < failed[q]

\* an excluded instrument with a failed condition and a mask that has no
\* entry for it
C2_Witness ==
    \E res \in FilterResults : \E j \in DOMAIN res.log :
        /\ Len(res.log[j].failed) >= 1
        /\ \E k \in DOMAIN FlatMasks : res.log[j].stock_id \notin DOMAIN FlatMasks[k]

\* C3: the watch list is ordered by industry, descending, and two passing
\* instruments of the same industry keep the relative order they have in the
\* dataset.
C3_SortedAndStable ==
    \A res \in FilterResults :
        \A p, q \in DOMAIN res.watch_list :
            p < q =>
              LET a == res.watch_list[p]
                  b == res.watch_list[q]
              IN /\ in_df.row[a]["industry"] >= in_df.row[b]["industry"]
                 /\ in_df.row[a]["industry"] = in_df.row[b]["industry"]
                      => PosIn(in_df.index, a) < PosIn(in_df.index, b)

Latest(s) == s[Len(s)]

Before(s, n) == s[Len(s) - n]

\* the rows that passed the given strategy in some call
Passed(name) ==
    {in_df.row[id] : id \in UNION {Range(out[i].res.watch_list) :
                                     i \in {j \in DOMAIN out : out[j].strategy = name}}}

\* C9 as stated: every instrument that passes strategy 1 has today's volume
\* above the threshold, above yesterday's volume, above the 5-day and above
\* the 20-day average volume, with the 5-day average rising and above its
\* threshold.
C9_VolumeAboveBothAverages ==
    \A row \in Passed("strategy_1") :
        /\ Latest(row.volume) > STRAT1_VOLUME_THRESHOLD
        /\ Latest(row.volume) > Before(row.volume, 1)
        /\ Latest(row.volume) > Latest(row.mean_5_volume)
        /\ Latest(row.volume) > Latest(row.mean_20_volume)
        /\ Latest(row.mean_5_volume) > Before(row.mean_5_volume, 1)
        /\ Latest(row.mean_5_volume) > STRAT1_MEAN5_VOLUME_THRESHOLD

\* C9 amended: every instrument that passes strategy 1 has today's volume
\* above the threshold, above yesterday's volume and above the 5-day average
\* volume, a 20-day average volume above its own threshold, and a 5-day
\* average volume that is rising and above its threshold.
C9_VolumeConditions ==
    \A row \in Passed("strategy_1") :
        /\ Latest(row.volume) > STRAT1_VOLUME_THRESHOLD
        /\ Latest(row.volume) > Before(row.volume, 1)
        /\ Latest(row.volume) > Latest(row.mean_5_volume)
        /\ Latest(row.mean_20_volume) > STRAT1_MEAN20_VOLUME_THRESHOLD
        /\ Latest(row.mean_5_volume) > Before(row.mean_5_volume, 1)
        /\ Latest(row.mean_5_volume) > STRAT1_MEAN5_VOLUME_THRESHOLD

\* an instrument passed strategy 1 with a volume below its 20-day average
C9_Witness ==
    \E row \in Passed("strategy_1") :
        Latest(row.volume) < Latest(row.mean_20_volume)

\* C10: every instrument that passes strategy 3 closed lower yesterday than
\* the day before.
C10_YesterdayDown ==
    \A row \in Passed("strategy_3") :
        Before(row.close, 1) < Before(row.close, 2)

\* the exclusion lines of the calls of the given strategy
Excluded(name) ==
    UNION {Range(out[i].res.log) :
              i \in {j \in DOMAIN out : out[j].strategy = name}}

\* C11: labels are the 1-based positions in fundamental, then technical, then
\* chip conditions: for strategy 1 label 1 is the revenue condition, label 2
\* the minimum close and label 3 the close above the 5-day average, and an
\* instrument that differs from a passing one only by a close not above its
\* 5-day average is excluded with exactly label 3; for strategy 3, whose
\* fundamental list is empty, label 1 is the first technical condition (the
\* minimum close).
C11_PositionalLabels ==
    /\ \A line \in Excluded("strategy_1") :
          LET row == in_df.row[line.stock_id]
          IN /\ 1 \in Range(line.failed)
                  <=> ~(row.rev_mom > 0 \/ row.rev_yoy > 0 \/ row.rev_cum > 0)
             /\ 2 \in Range(line.failed)
                  <=> ~(Latest(row.close) > STRAT1_MIN_CLOSE_PRICE)
             /\ 3 \in Range(line.failed)
                  <=> ~(Latest(row.close) > Latest(row.mean5))
             /\ (/\ row = [RowA EXCEPT !.mean5 = row.mean5]
                 /\ Before(row.mean5, 1) = Before(RowA.mean5, 1)
                 /\ ~(Latest(row.close) > Latest(row.mean5)))
                  => line.failed = <<3>>
    /\ \A line \in Excluded("strategy_3") :
          LET row == in_df.row[line.stock_id]
          IN 1 \in Range(line.failed)
                 <=> ~(Latest(row.close) > STRAT3_MIN_CLOSE_PRICE)

\* strategy 1 kept the passing row and excluded, with label 3 alone, the row
\* whose close is not above its 5-day average
C11_Witness ==
    \E i \in DOMAIN out :
        /\ out[i].strategy = "strategy_1"
        /\ out[i].res.watch_list = <<1>>
        /\ out[i].res.log = <<[stock_id |-> 2, failed |-> <<3>>]>>

\* ---------------------------------------------------------------------------
\* Properties of /update and update_and_broadcast (Spec)
\* ---------------------------------------------------------------------------
\* C4: at most one update_and_broadcast task is running at any time.
C4_AtMostOneTask == Cardinality({r \in Requests : Running(r)}) <= 1

StrategyColumns(name) ==
    IF name = "strategy_1" THEN strategy_1_columns ELSE strategy_3_columns

Left(r) == task[r].pc \in {"finally", "ended"}

\* C6: when a strategy is evaluated on a dataset that lacks a column it
\* needs, update_and_broadcast is left by the exception, that strategy is the
\* last one evaluated, and nothing is broadcast.
C6_StrategyErrorAborts ==
    \A r \in Requests : \A k \in DOMAIN task[r].evaluated :
        ~(StrategyColumns(task[r].evaluated[k]) \subseteq task[r].df.cols)
            => /\ Left(r)
               /\ task[r].outcome = "raised"
               /\ k = Len(task[r].evaluated)
               /\ task[r].sent = <<>>

\* a task that was to broadcast ended by the exception of strategy 3 after
\* strategy 1 had produced a watch list
C6_Witness ==
    \E r \in Requests :
        /\ task[r].pc = "ended"
        /\ task[r].need_broadcast
        /\ task[r].outcome = "raised"
        /\ task[r].evaluated = <<"strategy_1", "strategy_3">>
        /\ Len(task[r].watch_list_dfs) = 1
        /\ task[r].watch_list_dfs[1] # <<>>

\* C7: when the market dataset has zero rows, update_and_broadcast returns
\* without raising, evaluates no strategy and broadcasts nothing.
C7_EmptyMarketSkipsRun ==
    \A r \in Requests :
        task[r].shape0 = 0
            => /\ Left(r)
               /\ task[r].outcome = "returned"
               /\ task[r].evaluated = <<>>
               /\ task[r].sent = <<>>

\* a task that was to broadcast ended on a market dataset of zero rows
C7_Witness ==
    \E r \in Requests :
        /\ task[r].pc = "ended"
        /\ task[r].shape0 = 0
        /\ task[r].need_broadcast

\* the run of r evaluated both strategies and no instrument passed
NoInstrumentPassed(r) ==
    /\ task[r].pc = "ended"
    /\ task[r].outcome = "returned"
    /\ Len(task[r].watch_list_dfs) = 2
    /\ \A i \in DOMAIN task[r].watch_list_dfs : task[r].watch_list_dfs[i] = <<>>

\* the run of r ended by the exception of a strategy
EvaluationFailed(r) ==
    /\ task[r].pc = "ended"
    /\ task[r].outcome = "raised"
    /\ task[r].evaluated # <<>>

\* C8: for the same need_broadcast, a run in which no instrument passes and
\* a run in which evaluation fails differ in the HTTP response or in the
\* broadcast.
C8_EmptyAndFailedDiffer ==
    \A r1, r2 \in Requests :
        /\ NoInstrumentPassed(r1)
        /\ EvaluationFailed(r2)
        /\ task[r1].need_broadcast = task[r2].need_broadcast
        => <<req[r1].status, req[r1].body, task[r1].sent>>
               # <<req[r2].status, req[r2].body, task[r2].sent>>

\* C12: once /update has spawned a task, is_updating eventually becomes false
\* again, whether update_and_broadcast returns or raises, so that a later
\* request is not answered 429 for ever.
C12_FlagEventuallyReset ==
    \A r \in Requests : Running(r) ~> (task[r].pc = "ended" /\ ~is_updating)

\* a task ended by an exception and the flag is reset
C12_Witness ==
    \E r \in Requests :
        /\ task[r].pc = "ended"
        /\ task[r].outcome = "raised"
        /\ ~is_updating

\* the answer of the first check of GET /update that fails for a request that
\* sent the headers h while the flag was `updating`; status 0: none fails
FirstFailingCheck(updating, h) ==
    IF updating
    THEN [status |-> 429, body |-> "Update already in progress"]
    ELSE IF h.token = "missing"
    THEN [status |-> 401, body |-> "Missing API-Access-Token"]
    ELSE IF h.token = "wrong"
    THEN [status |-> 401, body |-> "Invalid API-Access-Token"]
    ELSE IF h.date = "malformed"
    THEN [status |-> 400, body |-> "Invalid Target-Date format"]
    ELSE [status |-> 0, body |-> ""]

Rejected(r) == req[r].pc = "idle" /\ req'[r].pc = "responded"
Accepted(r) == req[r].pc = "idle" /\ req'[r].pc = "validated"
Spawned(r) == task[r].pc = "none" /\ task'[r].pc # "none"

C13_Step ==
    /\ \A r \in Requests :
          /\ Rejected(r) =>
                /\ req'[r].status \in {429, 401, 400}
                /\ FirstFailingCheck(is_updating, req'[r].headers) =
                      [status |-> req'[r].status, body |-> req'[r].body]
                /\ is_updating' = is_updating
                /\ task' = task
          /\ Accepted(r) =>
                /\ ~is_updating
                /\ req'[r].token = "valid"
                /\ req'[r].target_date \in {"weekday", "weekend"}
                /\ task' = task
          /\ Spawned(r) =>
                /\ req[r].pc = "validated"
                /\ req'[r].pc = "responded" /\ req'[r].status = 200
                /\ is_updating'
                /\ \A q \in Requests \ {r} : task'[q] = task[q]
          /\ task'[r].pc = "none" => task[r].pc = "none"
    /\ (~is_updating /\ is_updating') => \E r \in Requests : Spawned(r)

\* C13: GET /update answers by the first failing check in the order flag
\* (429), missing token (401), wrong token (401), malformed Target-Date (400);
\* a rejected request leaves is_updating and the tasks as they were, and only a
\* request that passed the four checks sets is_updating and spawns one task.
C13_FirstFailingCheckAnswers == [][C13_Step]_vars

C13_Witness ==
    /\ \E r \in Requests :
          /\ req[r].status = 401
          /\ req[r].headers.date = "malformed"
    /\ \E q \in Requests :
          /\ req[q].status = 200
          /\ task[q].pc # "none"

\* C14: in every reachable state is_updating is true while an
\* update_and_broadcast task spawned by /update is still running.
C14_FlagWhileRunning ==
    \A r \in Requests : (Running(r) /\ ~Left(r)) => is_updating

\* ---------------------------------------------------------------------------
\* The partition made by _update_watch_list (SpecFilter)
\* ---------------------------------------------------------------------------
\* every condition mask has an entry for every instrument id of the dataset
TotalMasks == \A k \in DOMAIN FlatMasks : DOMAIN FlatMasks[k] = Ids(in_df)

Logged(res) == {res.log[j].stock_id : j \in DOMAIN res.log}

\* C15: with other_funcs unset and every mask defined for every instrument id,
\* each instrument id is either in the passing list or in the excluded set,
\* never in both, and every excluded instrument has at least one
\* failed-condition label in its audit entry.
C15_Partition ==
    TotalMasks =>
        \A res \in FilterResults :
            /\ Range(res.watch_list) \cup Logged(res) = Ids(in_df)
            /\ Range(res.watch_list) \cap Logged(res) = {}
            /\ \A j \in DOMAIN res.log : res.log[j].failed # <<>>

\* a call with total masks in which one instrument passed and another one
\* was excluded
C15_Witness ==
    /\ TotalMasks
    /\ \E res \in FilterResults : res.watch_list # <<>> /\ res.log # <<>>

====
